---- MODULE Spec2Model ----
(***************************************************************************)
(* Model of nova/api/openstack/servers.py: the "servers" REST controller   *)
(* of the OpenStack API in its two protocol versions (1.0 and 1.1).        *)
(*                                                                         *)
(* One request is handled at a time.  A handler action takes the request   *)
(* (its query string or body, the caller's context, the results the        *)
(* compute API gives to the calls made) and records the calls made on the  *)
(* compute API and the response that leaves the handler.                   *)
(***************************************************************************)
EXTENDS Integers, Sequences, FiniteSets, TLC

VARIABLES
    allow_admin_api,  \* FLAGS.allow_admin_api, fixed for the process
    pc,               \* "idle": waiting for a request; "done": request handled
    method,           \* controller method that handled the request
    version,          \* "1.0" (ControllerV10) or "1.1" (ControllerV11)
    is_admin,         \* req.environ['nova.context'].is_admin
    str_GET,          \* req.str_GET, the query string as a dict
    body,             \* the deserialized request body
    search_opts,      \* the search_opts dict as the handler left it
    calls,            \* calls made on self.compute_api, in order
    handlers,         \* _action_* handlers entered by action()
    response          \* what left the controller method

vars == <<allow_admin_api, pc, method, version, is_admin, str_GET, body,
          search_opts, calls, handlers, response>>

----------------------------------------------------------------------------
(* Bounds of the model.                                                    *)

\* longest string given as the value of the flavor query option
MaxLen == 2
\* largest number of options in one query string
MaxQueryKeys == 3
\* largest number of top-level keys in one action body
MaxBodyKeys == 2
\* longest base64 text given as the contents of a personality
MaxB64Len == 4
\* largest number of personalities in one rebuild
MaxPersonalities == 1

----------------------------------------------------------------------------
(* Python values.                                                          *)

\* a dict is a function from its keys to its values
EmptyDict == [k \in {} |-> ""]

\* dict.pop(k, None), for the resulting dict
pop(d, k) == [j \in DOMAIN d \ {k} |-> d[j]]

\* d[k] = v, for the resulting dict
setitem(d, k, v) == [j \in DOMAIN d \cup {k} |-> IF j = k THEN v ELSE d[j]]

\* body values come out of the deserializer as a dict, a string or None
Dict(f) == [type |-> "dict", items |-> f]
Str(s) == [type |-> "str", val |-> s]
None == [type |-> "NoneType"]

\* strings read character by character are sequences of characters
Chars == {"0", "7", "x"}
Digits == {"0", "7"}
Strings(n) == UNION {[1..m -> Chars] : m \in 0..n}

DigitVal(c) == IF c = "7" THEN 7 ELSE 0

\* int(s) of a string of this alphabet: the decimal value, or ValueError
RECURSIVE DecimalValue(_)
DecimalValue(s) ==
    IF Len(s) = 0 THEN 0
    ELSE 10 * DecimalValue(SubSeq(s, 1, Len(s) - 1)) + DigitVal(s[Len(s)])

int(s) ==
    IF Len(s) > 0 /\ \A i \in 1..Len(s) : s[i] \in Digits
    THEN [exc |-> "none", val |-> DecimalValue(s)]
    ELSE [exc |-> "ValueError", val |-> 0]

----------------------------------------------------------------------------
(* What leaves a controller method.                                        *)

\* status codes of the webob.exc classes the controller uses
StatusOf(e) ==
    CASE e = "HTTPNoContent" -> 204
      [] e = "HTTPBadRequest" -> 400
      [] e = "HTTPForbidden" -> 403
      [] e = "HTTPNotFound" -> 404
      [] e = "HTTPConflict" -> 409
      [] e = "HTTPUnprocessableEntity" -> 422
      [] e = "HTTPNotImplemented" -> 501

HTTPErrors == {"HTTPNoContent", "HTTPBadRequest", "HTTPForbidden",
               "HTTPNotFound", "HTTPConflict", "HTTPUnprocessableEntity",
               "HTTPNotImplemented"}

\* return exc.HTTPxxx()
Return(e) == [via |-> "return", what |-> e, status |-> StatusOf(e)]
\* return webob.Response(status_int=s)
ReturnResponse(s) == [via |-> "return", what |-> "Response", status |-> s]
\* return of a dict to serialize
ReturnDict == [via |-> "return", what |-> "dict", status |-> 200]
\* an exception leaves the method: a webob.exc one carries its status, any
\* other one is a fault the method did not handle (status 0: none chosen)
Raise(e) ==
    IF e \in HTTPErrors
    THEN [via |-> "raise", what |-> e, status |-> StatusOf(e)]
    ELSE [via |-> "unhandled", what |-> e, status |-> 0]

NoResponse == [via |-> "none", what |-> "none", status |-> 0]

\* results of a call on the compute API: "ok" or the exception it raises
Outcomes == {"ok", "NotFound", "Invalid", "BuildInProgress", "Exception"}

\* exception.Invalid and its subclasses
InvalidClass == {"Invalid", "InvalidInput"}
\* exception.NotFound and its subclasses
NotFoundClass == {"NotFound"}

Call(fn, args, result) == [fn |-> fn, args |-> args, result |-> result]

\* the outcome of a handler: response, calls made, search_opts, handlers
Result(r, c, o, h) ==
    [response |-> r, calls |-> c, search_opts |-> o, handlers |-> h]

----------------------------------------------------------------------------
(* Option sanitizer.                                                       *)

RECURSIVE PopAll(_, _)
PopAll(d, ks) ==
    IF Len(ks) = 0 THEN d ELSE PopAll(pop(d, Head(ks)), Tail(ks))

admin_api == <<"ip", "ip6", "instance_name">>

SeqToSet(s) == {s[i] : i \in 1..Len(s)}

\* the sanitizer without the stripping of the disabled admin API
check_admin_search_options_nostrip(flag, ctx_is_admin, search_options, admin_api_options) ==
    IF ~flag
    THEN [exc |-> "none", opts |-> search_options]
    ELSE IF ctx_is_admin
    THEN [exc |-> "none", opts |-> search_options]
    ELSE IF DOMAIN search_options \cap SeqToSet(admin_api_options) # {}
    THEN [exc |-> "AdminRequired", opts |-> search_options]
    ELSE [exc |-> "none", opts |-> search_options]

\* the sanitizer stripping the options of a non-admin caller instead of
\* refusing them
check_admin_search_options_downgrade(flag, ctx_is_admin, search_options, admin_api_options) ==
    IF ~flag \/ ~ctx_is_admin
    THEN [exc |-> "none", opts |-> PopAll(search_options, admin_api_options)]
    ELSE [exc |-> "none", opts |-> search_options]

check_admin_search_options(flag, ctx_is_admin, search_options, admin_api_options) ==
    IF ~flag
    THEN [exc |-> "none", opts |-> PopAll(search_options, admin_api_options)]
    ELSE IF ctx_is_admin
    THEN [exc |-> "none", opts |-> search_options]
    ELSE LET spec_admin_opts ==
                 {opt \in DOMAIN search_options :
                      opt \in SeqToSet(admin_api_options)}
         IN  IF spec_admin_opts # {}
             THEN [exc |-> "AdminRequired", opts |-> search_options]
             ELSE [exc |-> "none", opts |-> search_options]

----------------------------------------------------------------------------
(* Listing pipeline.                                                       *)

\* power_state.states_from_status: the fixed status table
states_from_status(status) ==
    CASE status = "ACTIVE" -> {"RUNNING", "BLOCKED"}
      [] status = "PAUSED" -> {"PAUSED"}
      [] OTHER -> {}

\* utils.bool_from_str
bool_from_str(val) == val = "true"

\* the search without the test of an empty state list
_servers_search_nocheck(opts, out) ==
    LET o1 == pop(opts, "status")
        o2 == IF "status" \in DOMAIN opts
              THEN setitem(o1, "state", states_from_status(opts["status"]))
              ELSE o1
        o3 == pop(pop(o2, "changes-since"), "fresh")
    IN  [exc |-> IF out = "ok" THEN "none" ELSE out,
         opts |-> o3,
         calls |-> <<Call("get_all", o3, out)>>]

_servers_search(opts, out) ==
    LET status == IF "status" \in DOMAIN opts THEN opts["status"] ELSE "None"
        o1 == pop(opts, "status")
        o2 == IF "status" \in DOMAIN opts
              THEN setitem(o1, "state", states_from_status(status))
              ELSE o1
        o3 == pop(pop(o2, "changes-since"), "fresh")
    IN  IF "status" \in DOMAIN opts /\ Cardinality(o2["state"]) = 0
        THEN [exc |-> "InvalidInput", opts |-> o2, calls |-> <<>>]
        ELSE [exc |-> IF out = "ok" THEN "none" ELSE out,
              opts |-> o3,
              calls |-> <<Call("get_all", o3, out)>>]

_servers_from_request(flag, query, ctx_is_admin, out) ==
    LET chk == check_admin_search_options(flag, ctx_is_admin, query, admin_api)
        o1 == setitem(chk.opts, "recurse_zones",
                      IF "recurse_zones" \in DOMAIN chk.opts
                      THEN bool_from_str(chk.opts["recurse_zones"])
                      ELSE FALSE)
        fl == IF "flavor" \in DOMAIN o1
              THEN int(o1["flavor"])
              ELSE [exc |-> "none", val |-> 0]
        o2 == IF "flavor" \in DOMAIN o1 /\ fl.exc = "none"
              THEN setitem(o1, "flavor", fl.val)
              ELSE o1
    IN  IF chk.exc = "AdminRequired"
        THEN [exc |-> "HTTPForbidden", opts |-> chk.opts, calls |-> <<>>]
        ELSE IF fl.exc # "none"
        THEN [exc |-> fl.exc, opts |-> o1, calls |-> <<>>]
        ELSE _servers_search(o2, out)

\* the try/except of index and of detail
ListServers(flag, query, ctx_is_admin, out) ==
    LET r == _servers_from_request(flag, query, ctx_is_admin, out)
    IN  Result(IF r.exc = "none" THEN ReturnDict
               ELSE IF r.exc \in InvalidClass THEN Return("HTTPBadRequest")
               ELSE IF r.exc \in NotFoundClass THEN Return("HTTPNotFound")
               ELSE Raise(r.exc),
               r.calls, r.opts, <<>>)

----------------------------------------------------------------------------
(* show, create, update, delete.                                           *)

\* a handler's outcome when it only answers and calls
H(r, c) == Result(r, c, EmptyDict, <<>>)

Controller_show(out) ==
    H(IF out = "ok" THEN ReturnDict
      ELSE IF out \in NotFoundClass THEN Raise("HTTPNotFound")
      ELSE Raise(out),
      <<Call("routing_get", <<>>, out)>>)

\* helper.create_instance(req, body, self.compute_api.create): checks the
\* body, then calls the create method it was given, once
create_instance(valid, out) ==
    IF ~valid
    THEN [exc |-> "HTTPBadRequest", calls |-> <<>>]
    ELSE [exc |-> IF out = "ok" THEN "none" ELSE out,
          calls |-> <<Call("create", <<>>, out)>>]

Controller_create(valid, out) ==
    LET r == create_instance(valid, out)
    IN  H(IF r.exc = "none" THEN ReturnDict ELSE Raise(r.exc), r.calls)

\* helper._validate_server_name: the name is a string and not blank
_validate_server_name(name) ==
    IF name.type = "str" /\ name.val # ""
    THEN "none"
    ELSE "HTTPBadRequest"

\* Controller._parse_update does nothing; ControllerV10._parse_update sets
\* the password when the body has one
Controller__parse_update(inst_dict, out) ==
    [exc |-> "none", calls |-> <<>>]

ControllerV10__parse_update(inst_dict, out) ==
    IF "adminPass" \in DOMAIN inst_dict["server"].items
    THEN [exc |-> IF out = "ok" THEN "none" ELSE out,
          calls |-> <<Call("set_admin_password",
                           inst_dict["server"].items["adminPass"], out)>>]
    ELSE [exc |-> "none", calls |-> <<>>]

\* the password set by both versions
_parse_update_both(v, inst_dict, out) ==
    ControllerV10__parse_update(inst_dict, out)

_parse_update(v, inst_dict, out) ==
    IF v = "1.0"
    THEN ControllerV10__parse_update(inst_dict, out)
    ELSE Controller__parse_update(inst_dict, out)

\* an empty request body deserializes to an empty dict: both tests of
\* lines 210-214 are the test that the body is empty
Controller_update(v, b, out1, out2) ==
    IF b = EmptyDict
    THEN H(Raise("HTTPUnprocessableEntity"), <<>>)
    ELSE IF "server" \notin DOMAIN b
    THEN H(Raise("KeyError"), <<>>)
    ELSE IF b["server"].type # "dict"
    THEN H(Raise("TypeError"), <<>>)
    ELSE LET srv == b["server"].items
             named == IF "name" \in DOMAIN srv
                      THEN _validate_server_name(srv["name"])
                      ELSE "none"
             pu == _parse_update(v, b, out1)
             update_dict == IF "name" \in DOMAIN srv
                            THEN [display_name |-> srv["name"]]
                            ELSE EmptyDict
             upd == Call("update", update_dict, out2)
         IN  IF named # "none" THEN H(Raise(named), <<>>)
             ELSE IF pu.exc # "none" THEN H(Raise(pu.exc), pu.calls)
             ELSE H(IF out2 = "ok" THEN Return("HTTPNoContent")
                    ELSE IF out2 \in NotFoundClass THEN Raise("HTTPNotFound")
                    ELSE Raise(out2),
                    pu.calls \o <<upd>>)

ControllerV10_delete(out) ==
    H(IF out = "ok" THEN ReturnResponse(202)
      ELSE IF out \in NotFoundClass THEN Raise("HTTPNotFound")
      ELSE Raise(out),
      <<Call("delete", <<>>, out)>>)

\* HeadersSerializer.delete: the status given to a delete that returned None
HeadersSerializer_delete == 204

\* the delete of 1.1 answering as the delete of 1.0 does
ControllerV11_delete_202(out) ==
    H(IF out = "ok" THEN ReturnResponse(202)
      ELSE IF out \in NotFoundClass THEN Raise("HTTPNotFound")
      ELSE Raise(out),
      <<Call("delete", <<>>, out)>>)

ControllerV11_delete(out) ==
    H(IF out = "ok"
      THEN [via |-> "return", what |-> "None",
            status |-> HeadersSerializer_delete]
      ELSE IF out \in NotFoundClass THEN Raise("HTTPNotFound")
      ELSE Raise(out),
      <<Call("delete", <<>>, out)>>)

----------------------------------------------------------------------------
(* Admin lifecycle actions.                                                *)

\* lock, unlock, get_lock, reset_network, inject_network_info, pause,
\* unpause, suspend, resume, rescue, unrescue: one call in a try with a
\* bare except
CatchAll(fn, out) ==
    H(IF out = "ok" THEN ReturnResponse(202)
      ELSE Raise("HTTPUnprocessableEntity"),
      <<Call(fn, <<>>, out)>>)

\* get_ajax_console, get_vnc_console: int(id) and the call are in a try
\* that catches NotFound only
CatchNotFound(fn, id, out) ==
    LET i == int(id)
    IN  IF i.exc # "none"
        THEN H(Raise(i.exc), <<>>)
        ELSE H(IF out = "ok" THEN ReturnResponse(202)
               ELSE IF out \in NotFoundClass THEN Raise("HTTPNotFound")
               ELSE Raise(out),
               <<Call(fn, i.val, out)>>)

\* diagnostics, actions: the call, nothing caught
NoCatch(fn, out) ==
    H(IF out = "ok" THEN ReturnDict ELSE Raise(out),
      <<Call(fn, <<>>, out)>>)

----------------------------------------------------------------------------
(* Action handlers.                                                        *)

\* 'k in v' for a body value: a dict has the key or not, None is not
\* iterable
In(k, v) ==
    IF v.type = "dict"
    THEN [exc |-> "none", val |-> k \in DOMAIN v.items]
    ELSE [exc |-> "TypeError", val |-> FALSE]

\* v[k] for a body value
GetItem(v, k) ==
    IF v.type # "dict" THEN [exc |-> "TypeError", val |-> None]
    ELSE IF k \notin DOMAIN v.items THEN [exc |-> "KeyError", val |-> None]
    ELSE [exc |-> "none", val |-> v.items[k]]

\* v.get(k, default) for a dict
Get(v, k, default) ==
    IF k \in DOMAIN v.items THEN v.items[k] ELSE default

\* an href is the sequence of the segments of its path
\* common.get_id_from_href: the last segment as an integer
get_id_from_href(href) ==
    IF Len(href) = 0 THEN [exc |-> "ValueError", val |-> 0]
    ELSE int(href[Len(href)])

Controller__action_change_password(input_dict, out) ==
    H(Return("HTTPNotImplemented"), <<>>)

ControllerV11__action_change_password(input_dict, out) ==
    LET has == IF "changePassword" \in DOMAIN input_dict
               THEN In("adminPass", input_dict["changePassword"])
               ELSE [exc |-> "none", val |-> FALSE]
    IN  IF has.exc # "none" THEN H(Raise(has.exc), <<>>)
        ELSE IF ~has.val THEN H(Return("HTTPBadRequest"), <<>>)
        ELSE LET password == input_dict["changePassword"].items["adminPass"]
             IN  IF password.type # "str" \/ password.val = ""
                 THEN H(Return("HTTPBadRequest"), <<>>)
                 ELSE H(IF out = "ok" THEN ReturnResponse(202) ELSE Raise(out),
                        <<Call("set_admin_password", password, out)>>)

\* confirm-resize answering as revert-resize does
_action_confirm_resize_202(input_dict, out) ==
    H(IF out = "ok" THEN ReturnResponse(202) ELSE Raise("HTTPBadRequest"),
      <<Call("confirm_resize", <<>>, out)>>)

_action_confirm_resize(input_dict, out) ==
    H(IF out = "ok" THEN Return("HTTPNoContent") ELSE Raise("HTTPBadRequest"),
      <<Call("confirm_resize", <<>>, out)>>)

_action_revert_resize(input_dict, out) ==
    H(IF out = "ok" THEN ReturnResponse(202) ELSE Raise("HTTPBadRequest"),
      <<Call("revert_resize", <<>>, out)>>)

_action_reboot(input_dict, out) ==
    LET has == IF "reboot" \in DOMAIN input_dict
               THEN In("type", input_dict["reboot"])
               ELSE [exc |-> "none", val |-> FALSE]
    IN  IF has.exc # "none" THEN H(Raise(has.exc), <<>>)
        ELSE IF ~has.val THEN H(Raise("HTTPUnprocessableEntity"), <<>>)
        ELSE H(IF out = "ok" THEN ReturnResponse(202)
               ELSE Raise("HTTPUnprocessableEntity"),
               <<Call("reboot", <<>>, out)>>)

_action_migrate(input_dict, out) ==
    H(IF out = "ok" THEN ReturnResponse(202) ELSE Raise("HTTPBadRequest"),
      <<Call("resize", <<>>, out)>>)

Controller__action_resize(input_dict, out) ==
    H(Return("HTTPNotImplemented"), <<>>)

ControllerV10__action_resize(input_dict, out) ==
    LET has == IF "resize" \in DOMAIN input_dict
               THEN In("flavorId", input_dict["resize"])
               ELSE [exc |-> "none", val |-> FALSE]
    IN  IF has.exc # "none" THEN H(Raise(has.exc), <<>>)
        ELSE IF ~has.val THEN H(Raise("HTTPUnprocessableEntity"), <<>>)
        ELSE H(IF out = "ok" THEN ReturnResponse(202) ELSE Raise(out),
               <<Call("resize", input_dict["resize"].items["flavorId"], out)>>)

\* the whole body is in a try whose 'except Exception' raises HTTPBadRequest:
\* it catches the HTTPUnprocessableEntity raised inside as well
ControllerV11__action_resize(input_dict, out) ==
    LET has == IF "resize" \in DOMAIN input_dict
               THEN In("flavorRef", input_dict["resize"])
               ELSE [exc |-> "none", val |-> FALSE]
        flavor_id == get_id_from_href(input_dict["resize"].items["flavorRef"])
        inner ==
            IF has.exc # "none" THEN [exc |-> has.exc, calls |-> <<>>]
            ELSE IF ~has.val
            THEN [exc |-> "HTTPUnprocessableEntity", calls |-> <<>>]
            ELSE IF flavor_id.exc # "none"
            THEN [exc |-> flavor_id.exc, calls |-> <<>>]
            ELSE [exc |-> IF out = "ok" THEN "none" ELSE out,
                  calls |-> <<Call("resize", flavor_id.val, out)>>]
    IN  H(IF inner.exc = "none" THEN ReturnResponse(202)
          ELSE Raise("HTTPBadRequest"),
          inner.calls)

ControllerV10__action_rebuild(info, out) ==
    LET rb == IF "rebuild" \in DOMAIN info
              THEN GetItem(info["rebuild"], "imageId")
              ELSE [exc |-> "KeyError", val |-> None]
    IN  IF rb.exc # "none" THEN H(Raise("HTTPBadRequest"), <<>>)
        ELSE H(IF out = "ok" THEN ReturnResponse(202)
               ELSE IF out = "BuildInProgress" THEN Raise("HTTPConflict")
               ELSE Raise(out),
               <<Call("rebuild", [image |-> rb.val], out)>>)

\* truth value of a body value
Truthy(v) ==
    CASE v.type = "NoneType" -> FALSE
      [] v.type = "str" -> v.val # ""
      [] v.type = "dict" -> DOMAIN v.items # {}

ControllerV11__validate_metadata(metadata) ==
    IF metadata.type = "dict" THEN "none" ELSE "HTTPBadRequest"

\* base64.b64decode of a string of the characters "A" (the digit 0) and
\* "=" (the pad), as binascii.a2b_base64 reads it: a pad is skipped unless
\* it ends a quad, and bits left over are an error (TypeError)
B64Val(c) == 0

RECURSIVE a2b_base64(_, _, _, _, _, _)
a2b_base64(str, i, quad_pos, leftbits, leftchar, bin) ==
    IF i > Len(str)
    THEN [exc |-> IF leftbits # 0 THEN "TypeError" ELSE "none", val |-> bin]
    ELSE IF str[i] = "="
    THEN IF \/ quad_pos < 2
            \/ quad_pos = 2 /\ ~(i + 1 <= Len(str) /\ str[i + 1] = "=")
         THEN a2b_base64(str, i + 1, quad_pos, leftbits, leftchar, bin)
         ELSE [exc |-> "none", val |-> bin]
    ELSE LET lc == leftchar * 64 + B64Val(str[i])
             lb == leftbits + 6
         IN  IF lb >= 8
             THEN a2b_base64(str, i + 1, (quad_pos + 1) % 4, lb - 8,
                             lc % (2 ^ (lb - 8)),
                             Append(bin, (lc \div (2 ^ (lb - 8))) % 256))
             ELSE a2b_base64(str, i + 1, (quad_pos + 1) % 4, lb, lc, bin)

b64decode(contents) ==
    IF contents.type # "str" THEN [exc |-> "TypeError", val |-> <<>>]
    ELSE a2b_base64(contents.val, 1, 0, 0, 0, <<>>)

\* the personalities decoded, or the first failure
RECURSIVE ControllerV11__decode_personalities(_)
ControllerV11__decode_personalities(personalities) ==
    IF Len(personalities) = 0 THEN [exc |-> "none", val |-> <<>>]
    ELSE LET personality == Head(personalities)
             path == GetItem(personality, "path")
             contents == GetItem(personality, "contents")
             dec == b64decode(contents.val)
             rest == ControllerV11__decode_personalities(Tail(personalities))
         IN  IF path.exc # "none" \/ contents.exc # "none"
             THEN [exc |-> "HTTPBadRequest", val |-> <<>>]
             ELSE IF dec.exc # "none"
             THEN [exc |-> "HTTPBadRequest", val |-> <<>>]
             ELSE IF rest.exc # "none" THEN rest
             ELSE [exc |-> "none",
                   val |-> <<[path |-> path.val, contents |-> dec.val]>>
                               \o rest.val]

\* the rebuild of 1.1 reading the image under the key of 1.0
ControllerV11__action_rebuild_imageId(info, out) ==
    LET rb == IF "rebuild" \in DOMAIN info
              THEN GetItem(info["rebuild"], "imageId")
              ELSE [exc |-> "KeyError", val |-> None]
        personalities == Get(info["rebuild"], "personality", <<>>)
        metadata == Get(info["rebuild"], "metadata", None)
        name == Get(info["rebuild"], "name", None)
        md == IF Truthy(metadata)
              THEN ControllerV11__validate_metadata(metadata)
              ELSE "none"
        ps == ControllerV11__decode_personalities(personalities)
    IN  IF rb.exc # "none" THEN H(Raise("HTTPBadRequest"), <<>>)
        ELSE IF md # "none" THEN H(Raise(md), <<>>)
        ELSE IF ps.exc # "none" THEN H(Raise(ps.exc), <<>>)
        ELSE H(IF out = "ok" THEN ReturnResponse(202)
               ELSE IF out = "BuildInProgress" THEN Raise("HTTPConflict")
               ELSE Raise(out),
               <<Call("rebuild",
                      [image |-> rb.val, name |-> name, metadata |-> metadata,
                       personalities |-> ps.val], out)>>)

ControllerV11__action_rebuild(info, out) ==
    LET rb == IF "rebuild" \in DOMAIN info
              THEN GetItem(info["rebuild"], "imageRef")
              ELSE [exc |-> "KeyError", val |-> None]
        personalities == Get(info["rebuild"], "personality", <<>>)
        metadata == Get(info["rebuild"], "metadata", None)
        name == Get(info["rebuild"], "name", None)
        md == IF Truthy(metadata)
              THEN ControllerV11__validate_metadata(metadata)
              ELSE "none"
        ps == ControllerV11__decode_personalities(personalities)
    IN  IF rb.exc # "none" THEN H(Raise("HTTPBadRequest"), <<>>)
        ELSE IF md # "none" THEN H(Raise(md), <<>>)
        ELSE IF ps.exc # "none" THEN H(Raise(ps.exc), <<>>)
        ELSE H(IF out = "ok" THEN ReturnResponse(202)
               ELSE IF out = "BuildInProgress" THEN Raise("HTTPConflict")
               ELSE Raise(out),
               <<Call("rebuild",
                      [image |-> rb.val, name |-> name, metadata |-> metadata,
                       personalities |-> ps.val], out)>>)

----------------------------------------------------------------------------
(* Action dispatcher.                                                      *)

\* the keys of the actions dict of Controller.action
ActionKeys == <<"changePassword", "reboot", "resize", "confirmResize",
                "revertResize", "rebuild", "migrate">>

\* the handler the actions dict gives to a key, in a version
Invoke(key, v, input_dict, out) ==
    CASE key = "changePassword" ->
            IF v = "1.0" THEN Controller__action_change_password(input_dict, out)
            ELSE ControllerV11__action_change_password(input_dict, out)
      [] key = "reboot" -> _action_reboot(input_dict, out)
      [] key = "resize" ->
            IF v = "1.0" THEN ControllerV10__action_resize(input_dict, out)
            ELSE ControllerV11__action_resize(input_dict, out)
      [] key = "confirmResize" -> _action_confirm_resize(input_dict, out)
      [] key = "revertResize" -> _action_revert_resize(input_dict, out)
      [] key = "rebuild" ->
            IF v = "1.0" THEN ControllerV10__action_rebuild(input_dict, out)
            ELSE ControllerV11__action_rebuild(input_dict, out)
      [] key = "migrate" -> _action_migrate(input_dict, out)

\* the loop without its return: every handler whose key is in the body runs
RECURSIVE Controller_action_noreturn(_, _, _, _)
Controller_action_noreturn(keys, v, b, out) ==
    IF Len(keys) = 0
    THEN H(Raise("HTTPNotImplemented"), <<>>)
    ELSE IF Head(keys) \in DOMAIN b
    THEN LET r == Invoke(Head(keys), v, b, out)
             rest == Controller_action_noreturn(Tail(keys), v, b, out)
         IN  Result(r.response, r.calls \o rest.calls, EmptyDict,
                    <<Head(keys)>> \o rest.handlers)
    ELSE Controller_action_noreturn(Tail(keys), v, b, out)

\* for key in actions.keys(): if key in body: return actions[key](...)
\* keys is the order in which the dict gives its keys
RECURSIVE Controller_action(_, _, _, _)
Controller_action(keys, v, b, out) ==
    IF Len(keys) = 0
    THEN H(Raise("HTTPNotImplemented"), <<>>)
    ELSE IF Head(keys) \in DOMAIN b
    THEN LET r == Invoke(Head(keys), v, b, out)
         IN  Result(r.response, r.calls, EmptyDict, <<Head(keys)>>)
    ELSE Controller_action(Tail(keys), v, b, out)

----------------------------------------------------------------------------
(* Requests.                                                               *)

Versions == {"1.0", "1.1"}

QueryKeys == {"ip", "ip6", "instance_name", "status", "flavor",
              "recurse_zones", "changes-since", "fresh"}
StatusValues == {"ACTIVE", "PAUSED", "bogus-value"}
RecurseValues == {"true", "junk"}

QueryKeySets == {D \in SUBSET QueryKeys : Cardinality(D) <= MaxQueryKeys}

Query(D, st, fl, rz) ==
    [k \in D |-> CASE k = "status" -> st
                   [] k = "flavor" -> fl
                   [] k = "recurse_zones" -> rz
                   [] OTHER -> "x"]

\* the request reaches a controller method, which handles it to the end
Handle(m, v, adm, q, b, res) ==
    /\ pc' = "done"
    /\ method' = m
    /\ version' = v
    /\ is_admin' = adm
    /\ str_GET' = q
    /\ body' = b
    /\ search_opts' = res.search_opts
    /\ calls' = res.calls
    /\ handlers' = res.handlers
    /\ response' = res.response
    /\ UNCHANGED allow_admin_api

index ==
    /\ pc = "idle"
    /\ \E v \in Versions, adm \in BOOLEAN, out \in Outcomes,
       D \in QueryKeySets, st \in StatusValues,
       fl \in Strings(MaxLen), rz \in RecurseValues :
        Handle("index", v, adm, Query(D, st, fl, rz), EmptyDict,
                  ListServers(allow_admin_api, Query(D, st, fl, rz), adm, out))

detail ==
    /\ pc = "idle"
    /\ \E v \in Versions, adm \in BOOLEAN, out \in Outcomes,
       D \in QueryKeySets, st \in StatusValues,
       fl \in Strings(MaxLen), rz \in RecurseValues :
        Handle("detail", v, adm, Query(D, st, fl, rz), EmptyDict,
                  ListServers(allow_admin_api, Query(D, st, fl, rz), adm, out))

\* a request with neither query string nor body
Simple(m, v, res) == Handle(m, v, FALSE, EmptyDict, EmptyDict, res)

show ==
    /\ pc = "idle"
    /\ \E v \in Versions, out \in Outcomes :
        Simple("show", v, Controller_show(out))

create ==
    /\ pc = "idle"
    /\ \E v \in Versions, out \in Outcomes, valid \in BOOLEAN :
        Simple("create", v, Controller_create(valid, out))

Names == {Str("srv"), Str(""), None}
Passwords == {Str("pw"), Str(""), None}

ServerDicts ==
    {[k \in D |-> IF k = "name" THEN n ELSE p] :
        D \in SUBSET {"name", "adminPass"}, n \in Names, p \in Passwords}

UpdateBodies ==
    {EmptyDict, [other |-> None], [server |-> None]}
        \cup {[server |-> Dict(d)] : d \in ServerDicts}

update ==
    /\ pc = "idle"
    /\ \E v \in Versions, out1 \in Outcomes, out2 \in Outcomes,
          b \in UpdateBodies :
        Handle("update", v, FALSE, EmptyDict, b,
               Controller_update(v, b, out1, out2))

delete ==
    /\ pc = "idle"
    /\ \E v \in Versions, out \in Outcomes :
        Simple("delete", v,
               IF v = "1.0" THEN ControllerV10_delete(out)
               ELSE ControllerV11_delete(out))

Admin(m) ==
    /\ pc = "idle"
    /\ \E v \in Versions, out \in Outcomes :
        Simple(m, v, CatchAll(m, out))

lock == Admin("lock")
unlock == Admin("unlock")
get_lock == Admin("get_lock")
reset_network == Admin("reset_network")
inject_network_info == Admin("inject_network_info")
pause == Admin("pause")
unpause == Admin("unpause")
suspend == Admin("suspend")
resume == Admin("resume")
rescue == Admin("rescue")
unrescue == Admin("unrescue")

Console(m) ==
    /\ pc = "idle"
    /\ \E v \in Versions, out \in Outcomes, id \in Strings(MaxLen) :
        Simple(m, v, CatchNotFound(m, id, out))

get_ajax_console == Console("get_ajax_console")
get_vnc_console == Console("get_vnc_console")

diagnostics ==
    /\ pc = "idle"
    /\ \E v \in Versions, out \in Outcomes :
        Simple("diagnostics", v, NoCatch("get_diagnostics", out))

actions ==
    /\ pc = "idle"
    /\ \E v \in Versions, out \in Outcomes :
        Simple("actions", v, NoCatch("get_actions", out))

\* the iteration order of a dict is not fixed by the language: any key of
\* the actions dict may come first
Rotate(seq, n) == [i \in 1..Len(seq) |-> seq[((i + n - 1) % Len(seq)) + 1]]
KeyOrders == {Rotate(ActionKeys, n) : n \in 0..(Len(ActionKeys) - 1)}

\* values of the keys of an action body
B64Chars == {"A", "="}
B64Strings == UNION {[1..m -> B64Chars] : m \in 0..MaxB64Len}

Hrefs == {<<<<"x">>, fl>> : fl \in Strings(1)}

RebootValues == {None, Dict(EmptyDict), Dict([type |-> Str("HARD")])}

ResizeValues ==
    {None} \cup
    {Dict([k \in D |-> IF k = "flavorId" THEN <<"7">> ELSE h]) :
        D \in SUBSET {"flavorId", "flavorRef"}, h \in Hrefs}

ChangePasswordValues ==
    {None, Dict(EmptyDict)} \cup
    {Dict([adminPass |-> p]) : p \in Passwords}

PersonalityValues ==
    {None, Dict([path |-> Str("/etc/x")]),
     Dict([path |-> Str("/etc/x"), contents |-> None])} \cup
    {Dict([path |-> Str("/etc/x"), contents |-> Str(c)]) : c \in B64Strings}

\* a personality that decodes
GoodPersonality ==
    Dict([path |-> Str("/etc/x"), contents |-> Str(<<"A", "A", "=", "=">>)])

\* a list of personalities: ones that decode, then any one
PersonalityLists ==
    {<<>>} \cup
    {[i \in 1..m |-> IF i < m THEN GoodPersonality ELSE e] :
        m \in 1..MaxPersonalities, e \in PersonalityValues}

MetadataValues ==
    {None, Dict(EmptyDict), Dict([k |-> Str("v")]), Str("junk"), Str(""),
     Dict([k |-> Dict([n |-> Str("v")])])}

RebuildDict(D, ps, md) ==
    Dict([k \in D |-> CASE k = "imageId" -> <<"7">>
                        [] k = "imageRef" -> <<<<"x">>, <<"7">>>>
                        [] k = "personality" -> ps
                        [] k = "metadata" -> md])

RebuildValues ==
    {None} \cup
    {RebuildDict(D, ps, md) :
        D \in SUBSET {"imageId", "imageRef", "personality", "metadata"},
        ps \in PersonalityLists, md \in MetadataValues}

\* the rebuild values that give an image and nothing else
RebuildImageValues ==
    {None} \cup
    {RebuildDict(D, <<>>, None) : D \in SUBSET {"imageId", "imageRef"}}

BodyKeys == SeqToSet(ActionKeys) \cup {"unknown"}

\* a body of one key gives it any value; a body of several keys gives no
\* personality and no metadata to a rebuild
BodyValues(k, alone) ==
    CASE k = "reboot" -> RebootValues
      [] k = "resize" -> ResizeValues
      [] k = "changePassword" -> ChangePasswordValues
      [] k = "rebuild" -> IF alone THEN RebuildValues ELSE RebuildImageValues
      [] OTHER -> {None}

RECURSIVE DictsOver(_, _)
DictsOver(K, alone) ==
    IF K = {} THEN {EmptyDict}
    ELSE LET k == CHOOSE j \in K : TRUE
         IN  {setitem(d, k, val) :
                 d \in DictsOver(K \ {k}, alone), val \in BodyValues(k, alone)}

ActionBodies ==
    UNION {DictsOver(K, Cardinality(K) = 1) :
              K \in {S \in SUBSET BodyKeys : Cardinality(S) <= MaxBodyKeys}}

action ==
    /\ pc = "idle"
    /\ \E v \in Versions, out \in Outcomes, b \in ActionBodies,
          keys \in KeyOrders :
        Handle("action", v, FALSE, EmptyDict, b,
               Controller_action(keys, v, b, out))

\* the response is sent; nothing of the request is kept
Respond ==
    /\ pc = "done"
    /\ pc' = "idle"
    /\ method' = "none"
    /\ version' = "1.0"
    /\ is_admin' = FALSE
    /\ str_GET' = EmptyDict
    /\ body' = EmptyDict
    /\ search_opts' = EmptyDict
    /\ calls' = <<>>
    /\ handlers' = <<>>
    /\ response' = NoResponse
    /\ UNCHANGED allow_admin_api

Init ==
    /\ allow_admin_api \in BOOLEAN
    /\ pc = "idle"
    /\ method = "none"
    /\ version = "1.0"
    /\ is_admin = FALSE
    /\ str_GET = EmptyDict
    /\ body = EmptyDict
    /\ search_opts = EmptyDict
    /\ calls = <<>>
    /\ handlers = <<>>
    /\ response = NoResponse

Next ==
    \/ index
    \/ detail
    \/ show
    \/ create
    \/ update
    \/ delete
    \/ action
    \/ lock
    \/ unlock
    \/ get_lock
    \/ reset_network
    \/ inject_network_info
    \/ pause
    \/ unpause
    \/ suspend
    \/ resume
    \/ rescue
    \/ unrescue
    \/ get_ajax_console
    \/ get_vnc_console
    \/ diagnostics
    \/ actions
    \/ Respond

Spec == Init /\ [][Next]_vars

----------------------------------------------------------------------------
(* Properties.                                                             *)

Done == pc = "done"
Listing == method \in {"index", "detail"}
Privileged == SeqToSet(admin_api)
GetAllCalls == {i \in 1..Len(calls) : calls[i].fn = "get_all"}

\* the sanitizer lets the request through
PassesSanitizer ==
    ~(allow_admin_api /\ ~is_admin /\ DOMAIN str_GET \cap Privileged # {})

\* the flavor option, if any, is the text of an integer
FlavorCoerces ==
    "flavor" \in DOMAIN str_GET => int(str_GET["flavor"]).exc = "none"

\* C1: with the admin API disabled, whoever the caller and whatever the
\* query, a listing request never gives ip, ip6 or instance_name to get_all
\* and is never refused because of them.
C1_DisabledStripsPrivileged ==
    (Done /\ Listing /\ ~allow_admin_api) =>
        /\ \A i \in GetAllCalls : DOMAIN calls[i].args \cap Privileged = {}
        /\ DOMAIN search_opts \cap Privileged = {}
        /\ response.status # 403
        /\ response.what \notin {"HTTPForbidden", "AdminRequired"}

C1_Witness ==
    /\ Done /\ Listing /\ ~allow_admin_api /\ is_admin
    /\ {"ip", "instance_name"} \subseteq DOMAIN str_GET
    /\ Len(calls) = 1 /\ calls[1].fn = "get_all"
    /\ response.status = 200

\* C2: with the admin API enabled and a caller who is not admin, a listing
\* request whose query has ip, ip6 or instance_name is answered 403, makes
\* no get_all call, and its search options are as the query gave them.
C2_NonAdminForbidden ==
    (Done /\ Listing /\ allow_admin_api /\ ~is_admin
          /\ DOMAIN str_GET \cap Privileged # {}) =>
        /\ response.status = 403
        /\ calls = <<>>
        /\ search_opts = str_GET

C2_Witness ==
    /\ Done /\ method = "detail" /\ allow_admin_api /\ ~is_admin
    /\ DOMAIN str_GET = {"ip6", "status"}
    /\ response.what = "HTTPForbidden"
    /\ calls = <<>>

\* C3 as stated: handling one request makes no more than one call on the
\* compute API, whatever the operation, the version and the body.
C3_AtMostOneBackendCall ==
    Done => Len(calls) <= 1

\* the update of protocol 1.0 whose body gives a password
LegacyUpdateWithPassword ==
    /\ method = "update"
    /\ version = "1.0"
    /\ "server" \in DOMAIN body
    /\ body["server"].type = "dict"
    /\ "adminPass" \in DOMAIN body["server"].items

\* C3 amended: handling one request makes no more than one call on the
\* compute API, except the update of protocol 1.0 whose body gives
\* server.adminPass, which calls set_admin_password and, when that succeeds,
\* update.
C3_AtMostOneCallButLegacyUpdate ==
    Done =>
        /\ ~LegacyUpdateWithPassword => Len(calls) <= 1
        /\ LegacyUpdateWithPassword =>
              \/ Len(calls) <= 1
              \/ /\ Len(calls) = 2
                 /\ calls[1].fn = "set_admin_password"
                 /\ calls[1].result = "ok"
                 /\ calls[2].fn = "update"

C3_Witness ==
    /\ Done /\ LegacyUpdateWithPassword
    /\ Len(calls) = 2
    /\ calls[2].fn = "update"
    /\ response.status = 204

\* C4: an action request whose body has two or more of the keys of the
\* actions table enters exactly one handler and makes at most one call on
\* the compute API.
C4_OneHandlerPerAction ==
    (Done /\ method = "action"
          /\ Cardinality(DOMAIN body \cap SeqToSet(ActionKeys)) >= 2) =>
        /\ Len(handlers) = 1
        /\ handlers[1] \in DOMAIN body
        /\ Len(calls) <= 1

C4_Witness ==
    /\ Done /\ method = "action"
    /\ DOMAIN body = {"reboot", "migrate"}
    /\ handlers = <<"migrate">>
    /\ Len(calls) = 1 /\ calls[1].fn = "resize"

AdminActions ==
    {"lock", "unlock", "get_lock", "reset_network", "inject_network_info",
     "pause", "unpause", "suspend", "resume", "rescue", "unrescue",
     "get_ajax_console", "get_vnc_console"}

\* C5: for each admin lifecycle action, a failure of the compute API call
\* other than NotFound is answered 422 and never leaves the handler
\* unhandled; success is answered 202.
C5_AdminFailureIs422 ==
    (Done /\ method \in AdminActions /\ Len(calls) = 1) =>
        /\ calls[1].result = "ok" => response.status = 202
        /\ calls[1].result \notin {"ok", "NotFound"} =>
              /\ response.status = 422
              /\ response.via # "unhandled"

\* the field a resize must give, by version
FlavorField == IF version = "1.0" THEN "flavorId" ELSE "flavorRef"

ResizeEntered == Done /\ method = "action" /\ handlers = <<"resize">>

\* C6: in both versions a resize whose body lacks the flavor field of the
\* version is answered 422 and the resize of the compute API is not called.
C6_ResizeMissingFlavorIs422 ==
    (ResizeEntered /\ body["resize"].type = "dict"
                   /\ FlavorField \notin DOMAIN body["resize"].items) =>
        /\ response.status = 422
        /\ \A i \in 1..Len(calls) : calls[i].fn # "resize"

\* C7: in both versions, when a resize gives the flavor field and the resize
\* of the compute API raises, the handler catches it and answers 400; when
\* it succeeds the answer is 202.
C7_ResizeBackendFailureIs400 ==
    (ResizeEntered /\ Len(calls) = 1 /\ calls[1].fn = "resize") =>
        /\ calls[1].result = "ok" => response.status = 202
        /\ calls[1].result # "ok" =>
              /\ response.status = 400
              /\ response.via # "unhandled"

ConfirmOrRevert ==
    /\ Done /\ method = "action"
    /\ Len(handlers) = 1
    /\ handlers[1] \in {"confirmResize", "revertResize"}

\* C8 as stated: confirmResize and revertResize are both answered 202 when
\* the compute API call succeeds, and 400 when it raises.
C8_ConfirmAndRevertAre202 ==
    ConfirmOrRevert =>
        /\ Len(calls) = 1
        /\ calls[1].result = "ok" => response.status = 202
        /\ calls[1].result # "ok" => response.status = 400

\* C8 amended: when the compute API call succeeds confirmResize is answered
\* 204 and revertResize 202; when it raises both are answered 400.
C8_Confirm204Revert202 ==
    ConfirmOrRevert =>
        /\ Len(calls) = 1
        /\ calls[1].fn = IF handlers[1] = "confirmResize"
                         THEN "confirm_resize" ELSE "revert_resize"
        /\ calls[1].result = "ok" =>
              response.status = IF handlers[1] = "confirmResize"
                                THEN 204 ELSE 202
        /\ calls[1].result # "ok" => response.status = 400

C8_Witness ==
    /\ ConfirmOrRevert
    /\ handlers[1] = "confirmResize"
    /\ calls[1].result = "ok"
    /\ response = Return("HTTPNoContent")

\* C9: a listing request that passes the sanitizer and whose flavor option
\* is not the text of an integer is answered 400, and get_all is not called.
C9_BadFlavorIs400 ==
    (Done /\ Listing /\ PassesSanitizer /\ ~FlavorCoerces) =>
        /\ response.status = 400
        /\ calls = <<>>

C11_DeleteStatusByVersion ==
    (Done /\ method = "delete") =>
        /\ Len(calls) = 1
        /\ calls[1].fn = "delete"
        /\ (calls[1].result = "ok" /\ version = "1.0") =>
              response = ReturnResponse(202)
        /\ (calls[1].result = "ok" /\ version = "1.1") =>
              /\ response.status = 204
              /\ response.what = "None"
        /\ calls[1].result = "NotFound" => response.status = 404

C11_Witness ==
    /\ Done /\ method = "delete" /\ version = "1.1"
    /\ calls = <<Call("delete", <<>>, "ok")>>
    /\ response.status = 204

\* the rebuild of protocol 1.1 was entered
RebuildV11Entered ==
    Done /\ method = "action" /\ version = "1.1" /\ handlers = <<"rebuild">>

\* a mapping whose values are all strings
IsFlatMapping(md) ==
    /\ md.type = "dict"
    /\ \A k \in DOMAIN md.items : md.items[k].type = "str"

MissingImageRef ==
    \/ body["rebuild"].type # "dict"
    \/ "imageRef" \notin DOMAIN body["rebuild"].items

\* metadata is given and is not a flat mapping
MalformedMetadata ==
    /\ body["rebuild"].type = "dict"
    /\ "metadata" \in DOMAIN body["rebuild"].items
    /\ body["rebuild"].items["metadata"].type # "NoneType"
    /\ ~IsFlatMapping(body["rebuild"].items["metadata"])

\* the entry has no path, no contents, or contents that do not decode
BadPersonality(p) ==
    \/ p.type # "dict"
    \/ "path" \notin DOMAIN p.items
    \/ "contents" \notin DOMAIN p.items
    \/ b64decode(p.items["contents"]).exc # "none"

SomeBadPersonality ==
    /\ body["rebuild"].type = "dict"
    /\ "personality" \in DOMAIN body["rebuild"].items
    /\ \E i \in 1..Len(body["rebuild"].items["personality"]) :
          BadPersonality(body["rebuild"].items["personality"][i])

\* C12: in protocol 1.1 a rebuild whose imageRef is missing, whose metadata
\* is not a flat mapping, or one of whose personalities lacks path or
\* contents or has contents that do not decode from base64, is answered 400
\* and the rebuild of the compute API is never called.
C12_RebuildValidatedBeforeBackend ==
    (RebuildV11Entered
        /\ (MissingImageRef \/ MalformedMetadata \/ SomeBadPersonality)) =>
        /\ response.status = 400
        /\ calls = <<>>

\* the part of C12 that is about the image and the personalities
C12_ImageAndPersonalitiesChecked ==
    (RebuildV11Entered /\ (MissingImageRef \/ SomeBadPersonality)) =>
        /\ response.status = 400
        /\ calls = <<>>

RebuildCalled ==
    /\ Done /\ method = "action" /\ handlers = <<"rebuild">>
    /\ Len(calls) = 1
    /\ calls[1].fn = "rebuild"

\* the last segment of the path of an href: the id it ends in
LastSegment(href) == href[Len(href)]

\* C13 as stated: a rebuild of protocol 1.0 with rebuild.imageId = X calls
\* the rebuild of the compute API with X; a rebuild of protocol 1.1 with
\* rebuild.imageRef = an href ending in X calls it with X, not with the
\* href.
C13_RebuildImageResolved ==
    RebuildCalled =>
        IF version = "1.0"
        THEN calls[1].args.image = body["rebuild"].items["imageId"]
        ELSE /\ calls[1].args.image # body["rebuild"].items["imageRef"]
             /\ calls[1].args.image =
                    LastSegment(body["rebuild"].items["imageRef"])

\* C13 amended: a rebuild of protocol 1.0 with rebuild.imageId = X calls the
\* rebuild of the compute API with X; a rebuild of protocol 1.1 calls it
\* with the href given as rebuild.imageRef, as it was given.
C13_RebuildImageAsGiven ==
    RebuildCalled =>
        IF version = "1.0"
        THEN /\ "imageId" \in DOMAIN body["rebuild"].items
             /\ calls[1].args.image = body["rebuild"].items["imageId"]
        ELSE /\ "imageRef" \in DOMAIN body["rebuild"].items
             /\ calls[1].args.image = body["rebuild"].items["imageRef"]

C13_Witness ==
    /\ RebuildCalled /\ version = "1.1"
    /\ calls[1].result = "ok"
    /\ calls[1].args.image = <<<<"x">>, <<"7">>>>
    /\ response.status = 202

RebootEntered == Done /\ method = "action" /\ handlers = <<"reboot">>

\* C14: in both versions a reboot whose body has the reboot key but no
\* reboot.type is answered 422 and the reboot of the compute API is never
\* called.
C14_RebootMissingTypeIs422 ==
    (RebootEntered
        /\ (\/ body["reboot"].type # "dict"
            \/ "type" \notin DOMAIN body["reboot"].items)) =>
        /\ response.status = 422
        /\ \A i \in 1..Len(calls) : calls[i].fn # "reboot"

\* the case of C14 in which the value of the reboot key is a mapping
C14_MappingWithoutTypeIs422 ==
    (RebootEntered
        /\ body["reboot"].type = "dict"
        /\ "type" \notin DOMAIN body["reboot"].items) =>
        /\ response = Raise("HTTPUnprocessableEntity")
        /\ calls = <<>>

====
